---- MODULE Spec2Model ----
(***************************************************************************)
(* Rotation / penalty state machine of the trash-duty worker.              *)
(*                                                                         *)
(* The model follows the most recent revision of the worker, the second    *)
(* module of src/index.js (lines 262-704): scheduled() is the weekly Tick, *)
(* fetch() on /schedule is the Query and fetch() on POST /report is the    *)
(* Report.  The three KV keys TEAM_MEMBERS, CURRENT_INDEX and PENALTY_BOX  *)
(* are the persisted state and ROTATION_DB tells whether the KV binding   *)
(* is configured; op, pre, out and hist record the last invocation, the    *)
(* state it read, what it produced, and the ticks counted since the last   *)
(* Report.  run holds the invocations in flight when handlers are taken    *)
(* one await at a time (SpecOverlap) instead of as a whole.                *)
(***************************************************************************)
EXTENDS Integers, Sequences, FiniteSets, TLC

VARIABLES ROTATION_DB, TEAM_MEMBERS, CURRENT_INDEX, PENALTY_BOX,
          op, pre, out, hist, run

vars == <<ROTATION_DB, TEAM_MEMBERS, CURRENT_INDEX, PENALTY_BOX,
          op, pre, out, hist, run>>

store == <<TEAM_MEMBERS, CURRENT_INDEX, PENALTY_BOX>>

\* ------------------------------------------------------------------------
\* Bounds and program constants
\* ------------------------------------------------------------------------

\* Largest roster provisioned in TEAM_MEMBERS.
MaxTeam == 4

PENALTY_LENGTH == 3

\* An absent JSON value (get() returns null) and JavaScript's undefined.
NULL == [null |-> TRUE]

\* CURRENT_INDEX when the key is absent: get() returns null, which the
\* "|| '0'" of every reader treats like the empty string.
NoIndex == <<>>

Names == <<"Alice", "Bob", "Carol", "Dave", "Erin", "Frank", "Grace", "Heidi">>

Max(a, b) == IF a >= b THEN a ELSE b

\* ------------------------------------------------------------------------
\* Values as the store holds them
\* ------------------------------------------------------------------------

\* TEAM_MEMBERS: an ordered JSON array of { name, phone }.
MakeTeam(n) == [i \in 1..n |-> [name |-> Names[i], phone |-> <<5, 5, 5, i>>]]

\* team[i] of JavaScript: zero-based, undefined outside the array.
At(team, i) == IF i >= 0 /\ i < Len(team) THEN team[i + 1] ELSE NULL

\* Number.prototype.toString(): the base-10 digits of a non-negative integer.
RECURSIVE toString(_)
toString(k) == IF k < 10 THEN <<k>> ELSE toString(k \div 10) \o <<k % 10>>

RECURSIVE digitsValue(_)
digitsValue(s) ==
  IF Len(s) = 0 THEN 0
  ELSE 10 * digitsValue(SubSeq(s, 1, Len(s) - 1)) + s[Len(s)]

\* parseInt((await rotationDb.get('CURRENT_INDEX')) || '0')
parseIndex(raw) == IF raw = NoIndex THEN 0 ELSE digitsValue(raw)

\* The % operator of JavaScript: the result takes the sign of the dividend.
jsMod(a, b) == IF a >= 0 THEN a % b ELSE 0 - ((0 - a) % b)

\* ------------------------------------------------------------------------
\* scheduled(): the weekly Tick
\* ------------------------------------------------------------------------

\* "offenderIndex >= 0 && offenderIndex < teamSize" on a stored record.
offenderInRange(raw, teamSize) ==
  raw.offenderIndex >= 0 /\ raw.offenderIndex < teamSize

\* penaltyWeeks = Math.max(0, weeksRemaining)
penaltyWeeksOf(raw) == Max(0, raw.weeksRemaining)

validatedPenalty_keepsZero(raw, teamSize) ==
  IF raw = NULL THEN NULL
  ELSE IF offenderInRange(raw, teamSize)
       THEN [offenderIndex |-> raw.offenderIndex,
             weeksRemaining |-> penaltyWeeksOf(raw)]
       ELSE NULL

validatedPenalty_keepsStale(raw, teamSize) ==
  IF raw = NULL THEN NULL
  ELSE IF penaltyWeeksOf(raw) # 0
       THEN [offenderIndex |-> raw.offenderIndex,
             weeksRemaining |-> penaltyWeeksOf(raw)]
       ELSE NULL

\* Step 2 of scheduled(): penaltyBox after validation, null when the stored
\* record is absent, stale (offender out of range) or has no week left.
validatedPenalty(raw, teamSize) ==
  IF raw = NULL THEN NULL
  ELSE IF offenderInRange(raw, teamSize) /\ penaltyWeeksOf(raw) # 0
       THEN [offenderIndex |-> raw.offenderIndex,
             weeksRemaining |-> penaltyWeeksOf(raw)]
       ELSE NULL

\* Step 2 deletes PENALTY_BOX exactly when a record is stored and rejected.
validationDeletes(raw, teamSize) ==
  raw # NULL /\ validatedPenalty(raw, teamSize) = NULL

servesPenalty_never(penaltyBox) == FALSE

\* "if (penaltyBox && penaltyWeeks > 0)": this Tick is a penalty week.
servesPenalty(penaltyBox) ==
  penaltyBox # NULL /\ penaltyBox.weeksRemaining > 0

remainingAfterThisWeek_same(penaltyWeeks) == penaltyWeeks

\* remainingAfterThisWeek = Math.max(0, penaltyWeeks - 1)
remainingAfterThisWeek(penaltyWeeks) == Max(0, penaltyWeeks - 1)

advanceIndex_stuck(currentIndex, teamSize) == currentIndex % teamSize

\* currentIndex = (currentIndex + 1) % teamSize
advanceIndex(currentIndex, teamSize) == (currentIndex + 1) % teamSize

\* activePenalty of step 3: null on a Normal tick.
activePenaltyOf(team, penaltyBox) ==
  IF servesPenalty(penaltyBox)
  THEN [offenderIndex |-> penaltyBox.offenderIndex,
        offender |-> At(team, penaltyBox.offenderIndex),
        remainingAfterThisWeek |->
          remainingAfterThisWeek(penaltyBox.weeksRemaining)]
  ELSE NULL

\* The value of PENALTY_BOX once steps 2 and 3 have run.
scheduledPenaltyBox(team, raw) ==
  LET penaltyBox == validatedPenalty(raw, Len(team))
      activePenalty == activePenaltyOf(team, penaltyBox)
  IN IF activePenalty # NULL
     THEN [offenderIndex |-> activePenalty.offenderIndex,
           weeksRemaining |-> activePenalty.remainingAfterThisWeek]
     ELSE IF validationDeletes(raw, Len(team)) THEN NULL ELSE raw

\* The local currentIndex once step 3 has run.
scheduledIndex(team, rawIndex, raw) ==
  LET penaltyBox == validatedPenalty(raw, Len(team))
  IN IF servesPenalty(penaltyBox)
     THEN parseIndex(rawIndex)
     ELSE advanceIndex(parseIndex(rawIndex), Len(team))

\* The value of CURRENT_INDEX once step 3 has run: written on a Normal tick.
scheduledIndexKey(team, rawIndex, raw) ==
  LET penaltyBox == validatedPenalty(raw, Len(team))
  IN IF servesPenalty(penaltyBox)
     THEN rawIndex
     ELSE toString(scheduledIndex(team, rawIndex, raw))

\* personOnDuty: the offender during a penalty week, else team[currentIndex].
personOnDuty(team, currentIndex, activePenalty) ==
  IF activePenalty # NULL /\ activePenalty.offender # NULL
  THEN activePenalty.offender
  ELSE At(team, currentIndex)

\* nextPersonUp
nextPersonUp(team, currentIndex, activePenalty) ==
  IF activePenalty # NULL /\ activePenalty.offender # NULL
  THEN IF activePenalty.remainingAfterThisWeek >= 1
       THEN activePenalty.offender
       ELSE At(team, currentIndex)
  ELSE At(team, (currentIndex + 1) % Len(team))

weekString(k) == IF k = 1 THEN "week" ELSE "weeks"

personalStatus_noPenaltyOffset(team, personIndex, currentIndex, activePenalty) ==
  LET teamSize == Len(team)
      normalWeeksUntilTurn ==
        jsMod(personIndex - currentIndex + teamSize, teamSize)
  IN IF activePenalty # NULL /\ activePenalty.offender # NULL
     THEN IF personIndex = activePenalty.offenderIndex
          THEN [kind |-> "penaltyWeek",
                week |-> PENALTY_LENGTH - activePenalty.remainingAfterThisWeek,
                of |-> PENALTY_LENGTH]
          ELSE [kind |-> "nextTurn", weeks |-> normalWeeksUntilTurn,
                weekString |-> weekString(normalWeeksUntilTurn)]
     ELSE IF normalWeeksUntilTurn = 0
          THEN [kind |-> "onDutyThisWeek"]
          ELSE [kind |-> "nextTurn", weeks |-> normalWeeksUntilTurn,
                weekString |-> weekString(normalWeeksUntilTurn)]

\* personalStatus of member personIndex (zero-based), without its date.
personalStatus(team, personIndex, currentIndex, activePenalty) ==
  LET teamSize == Len(team)
      normalWeeksUntilTurn ==
        jsMod(personIndex - currentIndex + teamSize, teamSize)
  IN IF activePenalty # NULL /\ activePenalty.offender # NULL
     THEN IF personIndex = activePenalty.offenderIndex
          THEN [kind |-> "penaltyWeek",
                week |-> PENALTY_LENGTH - activePenalty.remainingAfterThisWeek,
                of |-> PENALTY_LENGTH]
          ELSE LET weeksUntilTurn ==
                     normalWeeksUntilTurn
                       + activePenalty.remainingAfterThisWeek + 1
               IN [kind |-> "nextTurn", weeks |-> weeksUntilTurn,
                   weekString |-> weekString(weeksUntilTurn)]
     ELSE IF normalWeeksUntilTurn = 0
          THEN [kind |-> "onDutyThisWeek"]
          ELSE [kind |-> "nextTurn", weeks |-> normalWeeksUntilTurn,
                weekString |-> weekString(normalWeeksUntilTurn)]

sendQueue_onlyOnDuty(team, currentIndex, activePenalty) ==
  SelectSeq(
    [i \in 1..Len(team) |->
       [to |-> team[i].phone,
        status |-> personalStatus(team, i - 1, currentIndex, activePenalty),
        thisWeek |-> personOnDuty(team, currentIndex, activePenalty).name,
        nextWeek |-> nextPersonUp(team, currentIndex, activePenalty).name]],
    LAMBDA m : m.status.kind # "nextTurn")

\* sendQueue: one message per roster member, in roster order.
sendQueue(team, currentIndex, activePenalty) ==
  [i \in 1..Len(team) |->
     [to |-> team[i].phone,
      status |-> personalStatus(team, i - 1, currentIndex, activePenalty),
      thisWeek |-> personOnDuty(team, currentIndex, activePenalty).name,
      nextWeek |-> nextPersonUp(team, currentIndex, activePenalty).name]]

\* What one Tick announces, computed from the values it read.
scheduledOut(team, rawIndex, raw) ==
  LET penaltyBox == validatedPenalty(raw, Len(team))
      activePenalty == activePenaltyOf(team, penaltyBox)
      currentIndex == scheduledIndex(team, rawIndex, raw)
      onDuty == personOnDuty(team, currentIndex, activePenalty)
      nextUp == nextPersonUp(team, currentIndex, activePenalty)
  IN IF onDuty = NULL \/ nextUp = NULL
     THEN \* personOnDuty.name throws inside the message loop
          [aborted |-> FALSE, threw |-> TRUE, activePenalty |-> activePenalty,
           thisWeek |-> "", nextWeek |-> "", sendQueue |-> <<>>]
     ELSE [aborted |-> FALSE, threw |-> FALSE,
           activePenalty |-> activePenalty,
           thisWeek |-> onDuty.name, nextWeek |-> nextUp.name,
           sendQueue |-> sendQueue(team, currentIndex, activePenalty)]

\* What a Tick leaves behind when it returns before reading the pointer.
scheduledAborted ==
  [aborted |-> TRUE, threw |-> FALSE, activePenalty |-> NULL,
   thisWeek |-> "", nextWeek |-> "", sendQueue |-> <<>>]

\* ------------------------------------------------------------------------
\* fetch() on /schedule: the Query
\* ------------------------------------------------------------------------

queryPenaltyActive_needsWeeks(offenderIndex, currentIndex, futureWeeks) ==
  futureWeeks > 0

queryPenaltyActive_afterFirstTick(offenderIndex, currentIndex, futureWeeks) ==
  futureWeeks < PENALTY_LENGTH - 1

queryPenaltyActive_needsPointer(offenderIndex, currentIndex, futureWeeks) ==
  offenderIndex = currentIndex

\* penaltyActive = offender && (offenderIndex === currentIndex ||
\*                              futureWeeks > 0), for an offender in range
queryPenaltyActive(offenderIndex, currentIndex, futureWeeks) ==
  offenderIndex = currentIndex \/ futureWeeks > 0

\* penaltyInfo and the two names of the response, for a stored record whose
\* offender is in range.
schedulePenaltyView(team, currentIndex, rawPenaltyBox, base) ==
  LET offenderIndex == rawPenaltyBox.offenderIndex
      futureWeeks == Max(0, rawPenaltyBox.weeksRemaining)
      offender == At(team, offenderIndex)
      penaltyActive ==
        queryPenaltyActive(offenderIndex, currentIndex, futureWeeks)
      penaltyPending == ~penaltyActive /\ futureWeeks > 0
      displayWeeksRemaining ==
        IF penaltyActive THEN futureWeeks + 1 ELSE futureWeeks
  IN IF penaltyActive \/ penaltyPending
     THEN [onDuty |-> IF penaltyActive THEN offender.name ELSE base.onDuty,
           lastWeek |-> offender.name,
           penaltyInfo |->
             [offenderName |-> offender.name,
              weeksRemaining |-> displayWeeksRemaining,
              rawWeeksRemaining |-> futureWeeks,
              weekString |-> weekString(displayWeeksRemaining),
              isActive |-> penaltyActive,
              startsNextRotation |-> penaltyPending]]
     ELSE base

scheduleView_clampsOffender(team, currentIndex, rawPenaltyBox, base) ==
  IF rawPenaltyBox # NULL
  THEN schedulePenaltyView(
         team, currentIndex,
         [rawPenaltyBox EXCEPT
            !.offenderIndex = IF @ < Len(team) THEN @ ELSE Len(team) - 1],
         base)
  ELSE base

\* "if (offenderValid) { ... }": a stored record is looked at only when its
\* offender is in range.
scheduleView(team, currentIndex, rawPenaltyBox, base) ==
  IF rawPenaltyBox # NULL /\ offenderInRange(rawPenaltyBox, Len(team))
  THEN schedulePenaltyView(team, currentIndex, rawPenaltyBox, base)
  ELSE base

\* The response of GET /schedule for the values read from the store.  An
\* empty roster stands for a missing one: every handler rejects both alike.
scheduleResponse(team, rawIndex, rawPenaltyBox) ==
  LET teamSize == Len(team)
      currentIndex == parseIndex(rawIndex)
  IN IF teamSize = 0 \/ At(team, currentIndex) = NULL
     THEN \* thrown inside the try block, answered by the catch block
          [status |-> 500]
     ELSE LET baseLastWeekIndex == jsMod(currentIndex - 1 + teamSize, teamSize)
              base == [onDuty |-> At(team, currentIndex).name,
                       lastWeek |-> At(team, baseLastWeekIndex).name,
                       penaltyInfo |-> NULL]
              view == scheduleView(team, currentIndex, rawPenaltyBox, base)
          IN [status |-> 200,
              onDuty |-> view.onDuty,
              lastWeek |-> view.lastWeek,
              team |-> team,
              currentIndex |-> currentIndex,
              penaltyBox |-> rawPenaltyBox,
              penaltyInfo |-> view.penaltyInfo]

\* The dashboard shows the penalty banner when
\* "data.penaltyInfo && data.penaltyInfo.weeksRemaining > 0".
bannerVisible(data) ==
  data.penaltyInfo # NULL /\ data.penaltyInfo.weeksRemaining > 0

\* ------------------------------------------------------------------------
\* The dashboard's upcoming list (script.js)
\* ------------------------------------------------------------------------

MAX_UPCOMING_ROWS == 3

\* penaltyWeeks of deriveUpcoming: parseInt(penaltyBox.weeksRemaining), 0
\* when the response carries no record or a negative number.
upcomingPenaltyWeeks(penaltyBox) ==
  IF penaltyBox = NULL THEN 0 ELSE Max(0, penaltyBox.weeksRemaining)

upcomingPointer_stays(pointerValue, teamSize) == pointerValue % teamSize

\* pointer = (pointer + 1) % team.length
upcomingPointer(pointerValue, teamSize) == (pointerValue + 1) % teamSize

\* The for loop of deriveUpcoming with `rows` iterations left: a penalty
\* week names the offender, any other week moves the local pointer and
\* names the member there; a missing member ends the loop (break).
RECURSIVE upcomingNames(_, _, _, _, _)
upcomingNames(team, penaltyBox, pointerValue, penaltyWeeks, rows) ==
  IF rows = 0
  THEN <<>>
  ELSE IF penaltyWeeks > 0 /\ penaltyBox # NULL
  THEN LET offender == At(team, penaltyBox.offenderIndex)
       IN IF offender = NULL
          THEN <<>>
          ELSE <<offender.name>>
                 \o upcomingNames(team, penaltyBox, pointerValue,
                                  penaltyWeeks - 1, rows - 1)
  ELSE LET next == upcomingPointer(pointerValue, Len(team))
           person == At(team, next)
       IN IF person = NULL
          THEN <<>>
          ELSE <<person.name>>
                 \o upcomingNames(team, penaltyBox, next,
                                  penaltyWeeks, rows - 1)

\* deriveUpcoming(data) for a /schedule response: the response carries no
\* `upcoming` field, so the list is derived from team, currentIndex and
\* penaltyBox.
deriveUpcoming(data) ==
  IF "upcoming" \in DOMAIN data /\ data.upcoming # <<>>
  THEN data.upcoming
  ELSE IF Len(data.team) = 0
  THEN <<>>
  ELSE upcomingNames(data.team, data.penaltyBox, data.currentIndex,
                     upcomingPenaltyWeeks(data.penaltyBox),
                     MAX_UPCOMING_ROWS)

\* ------------------------------------------------------------------------
\* fetch() on POST /report: the Report
\* ------------------------------------------------------------------------

\* existingFutureWeeks; "|| {}" makes an absent record count as 0 weeks.
existingFutureWeeks(existingPenalty) ==
  IF existingPenalty = NULL THEN 0 ELSE Max(0, existingPenalty.weeksRemaining)

\* hasActivePenalty
hasActivePenalty(existingPenalty) ==
  existingPenalty # NULL /\ existingFutureWeeks(existingPenalty) > 0

reportOffenderIndex_lastWeek(existingPenalty, currentIndex, teamSize) ==
  jsMod(currentIndex - 1 + teamSize, teamSize)

reportOffenderIndex_pointer(existingPenalty, currentIndex, teamSize) ==
  IF hasActivePenalty(existingPenalty)
  THEN existingPenalty.offenderIndex
  ELSE currentIndex

\* offenderIndex: the stored offender while weeks remain, else the member
\* before the pointer.
reportOffenderIndex(existingPenalty, currentIndex, teamSize) ==
  IF hasActivePenalty(existingPenalty)
  THEN existingPenalty.offenderIndex
  ELSE jsMod(currentIndex - 1 + teamSize, teamSize)

reportIgnored_never(existingPenalty, offenderIndex) == FALSE

\* The guard of the "already has a penalty in progress" branch.
reportIgnored(existingPenalty, offenderIndex) ==
  /\ hasActivePenalty(existingPenalty)
  /\ existingPenalty.offenderIndex = offenderIndex
  /\ existingFutureWeeks(existingPenalty) >= PENALTY_LENGTH - 1

newPenalty_fullLength(offenderIndex) ==
  [offenderIndex |-> offenderIndex, weeksRemaining |-> PENALTY_LENGTH]

\* penalty = { offenderIndex, weeksRemaining: Math.max(0, PENALTY_LENGTH - 1) }
newPenalty(offenderIndex) ==
  [offenderIndex |-> offenderIndex,
   weeksRemaining |-> Max(0, PENALTY_LENGTH - 1)]

reportIndexKey_unchanged(rawIndex, offenderIndex) == rawIndex

\* put('CURRENT_INDEX', offenderIndex.toString()) replaces the stored key.
reportIndexKey(rawIndex, offenderIndex) == toString(offenderIndex)

\* recipients of the penalty alert: the members with a non-empty phone.
recipients(teamData) ==
  SelectSeq([i \in 1..Len(teamData) |-> teamData[i].phone],
            LAMBDA phone : phone # <<>>)

\* What one Report answers and sends, computed from the values it read.
reportOut(teamData, rawIndex, existingPenalty) ==
  LET teamSize == Len(teamData)
      currentIndex == parseIndex(rawIndex)
      offenderIndex ==
        reportOffenderIndex(existingPenalty, currentIndex, teamSize)
      offender == At(teamData, offenderIndex)
  IN IF teamSize = 0
     THEN [status |-> 500, kind |-> "error", offenderIndex |-> -1,
           alerts |-> <<>>]
     ELSE IF reportIgnored(existingPenalty, offenderIndex)
     THEN IF offender = NULL
          THEN \* offender.name throws: the request fails, nothing is written
               [status |-> 500, kind |-> "exception",
                offenderIndex |-> offenderIndex, alerts |-> <<>>]
          ELSE [status |-> 200, kind |-> "ignored",
                offenderIndex |-> offenderIndex, alerts |-> <<>>]
     ELSE [status |-> 200, kind |-> "recorded",
           offenderIndex |-> offenderIndex,
           alerts |-> IF offender # NULL THEN recipients(teamData) ELSE <<>>]

\* The 500 'Server configuration error' answer of a Report without binding.
reportConfigError ==
  [status |-> 500, kind |-> "configError", offenderIndex |-> -1,
   alerts |-> <<>>]

\* ------------------------------------------------------------------------
\* The state machine
\* ------------------------------------------------------------------------

\* The pointer as every handler reads it.
pointer == parseIndex(CURRENT_INDEX)

rosterSize == Len(TEAM_MEMBERS)

NoReport == [offender |-> -1, ticks |-> 0, clean |-> FALSE]

snapshot ==
  [index |-> CURRENT_INDEX, box |-> PENALTY_BOX, team |-> TEAM_MEMBERS]

\* Two invocations can be in flight at once: the cron trigger and requests
\* run in separate isolates with no lock between them.
Slots == {1, 2}

\* An invocation slot before its handler has been entered.
Idle ==
  [kind |-> "idle", pc |-> "idle", team |-> <<>>, rawIndex |-> NoIndex,
   rawBox |-> NULL, notified |-> FALSE, sent |-> <<>>, failures |-> 0,
   after |-> NULL, since |-> {}, answer |-> NULL]

NoRuns == [s \in Slots |-> Idle]

getRotationDb_unchecked(kv) == TRUE

\* getRotationDb(env): TRUE when it returns the binding, FALSE when it
\* throws 'ROTATION_DB binding is not configured.'
getRotationDb(kv) == kv

\* The store as provisioned: a roster, a pointer into it (or no pointer key
\* at all) and no penalty record.
Init ==
  /\ \E n \in 1..MaxTeam :
       /\ TEAM_MEMBERS = MakeTeam(n)
       /\ CURRENT_INDEX \in {NoIndex} \cup {toString(p) : p \in 0..(n - 1)}
  /\ ROTATION_DB = TRUE
  /\ PENALTY_BOX = NULL
  /\ op = "init"
  /\ pre = snapshot
  /\ out = NULL
  /\ hist = NoReport
  /\ run = NoRuns

\* Tick: the cron trigger runs scheduled() once.
scheduled ==
  /\ op' = "tick"
  /\ pre' = snapshot
  /\ UNCHANGED <<ROTATION_DB, TEAM_MEMBERS, run>>
  /\ IF ~getRotationDb(ROTATION_DB) \/ rosterSize = 0
     THEN /\ UNCHANGED <<CURRENT_INDEX, PENALTY_BOX, hist>>
          /\ out' = scheduledAborted
     ELSE /\ PENALTY_BOX' = scheduledPenaltyBox(TEAM_MEMBERS, PENALTY_BOX)
          /\ CURRENT_INDEX' =
               scheduledIndexKey(TEAM_MEMBERS, CURRENT_INDEX, PENALTY_BOX)
          /\ out' = scheduledOut(TEAM_MEMBERS, CURRENT_INDEX, PENALTY_BOX)
          /\ hist' = IF hist.offender = -1 \/ hist.ticks > PENALTY_LENGTH
                     THEN hist
                     ELSE [hist EXCEPT !.ticks = @ + 1]

fetchSchedule_cleansStale ==
  /\ op' = "query"
  /\ pre' = snapshot
  /\ out' = IF getRotationDb(ROTATION_DB)
            THEN scheduleResponse(TEAM_MEMBERS, CURRENT_INDEX, PENALTY_BOX)
            ELSE [status |-> 500]
  /\ PENALTY_BOX' = IF validationDeletes(PENALTY_BOX, rosterSize)
                    THEN NULL
                    ELSE PENALTY_BOX
  /\ UNCHANGED <<ROTATION_DB, TEAM_MEMBERS, CURRENT_INDEX, hist, run>>

\* Query: the dashboard loads GET /schedule.
fetchSchedule ==
  /\ op' = "query"
  /\ pre' = snapshot
  /\ out' = IF getRotationDb(ROTATION_DB)
            THEN scheduleResponse(TEAM_MEMBERS, CURRENT_INDEX, PENALTY_BOX)
            ELSE [status |-> 500]
  /\ UNCHANGED <<ROTATION_DB, TEAM_MEMBERS, CURRENT_INDEX, PENALTY_BOX, hist,
                 run>>

\* Report: a teammate posts /report.
fetchReport ==
  LET result == IF getRotationDb(ROTATION_DB)
                THEN reportOut(TEAM_MEMBERS, CURRENT_INDEX, PENALTY_BOX)
                ELSE reportConfigError
  IN /\ op' = "report"
     /\ pre' = snapshot
     /\ out' = result
     /\ UNCHANGED <<ROTATION_DB, TEAM_MEMBERS, run>>
     /\ IF result.kind = "recorded"
        THEN /\ PENALTY_BOX' = newPenalty(result.offenderIndex)
             /\ CURRENT_INDEX' =
                  reportIndexKey(CURRENT_INDEX, result.offenderIndex)
        ELSE UNCHANGED <<CURRENT_INDEX, PENALTY_BOX>>
     /\ hist' = IF result.status = 200
                THEN [offender |-> result.offenderIndex, ticks |-> 0,
                      clean |-> (result.kind = "recorded"
                                   /\ PENALTY_BOX = NULL)]
                ELSE hist

Next == scheduled \/ fetchSchedule \/ fetchReport

Spec == Init /\ [][Next]_vars

\* The cron trigger keeps firing: a Tick that can run eventually runs.
SpecLive == Init /\ [][Next]_vars /\ WF_vars(scheduled)

\* The PENALTY_BOX values an operator can leave in the store: none, or a
\* record with 0..PENALTY_LENGTH weeks naming any index up to MaxTeam, the
\* index one past the largest roster, so that it can be stale for any roster.
ProvisionedPenalty ==
  {NULL} \cup [offenderIndex : 0..MaxTeam,
               weeksRemaining : 0..PENALTY_LENGTH]

\* The store as an operator can leave it (README, "Populate Keys" and
\* "Operations & Maintenance"): the binding configured or not, the roster
\* missing/empty or edited, the pointer inside the roster, and an optional
\* penalty record that a roster edit may have made stale.
InitProvisioned ==
  /\ ROTATION_DB \in BOOLEAN
  /\ \E n \in 0..MaxTeam :
       /\ TEAM_MEMBERS = MakeTeam(n)
       /\ CURRENT_INDEX \in {NoIndex} \cup {toString(p) : p \in 0..(n - 1)}
  /\ PENALTY_BOX \in ProvisionedPenalty
  /\ op = "init"
  /\ pre = snapshot
  /\ out = NULL
  /\ hist = NoReport
  /\ run = NoRuns

SpecProvisioned == InitProvisioned /\ [][Next]_vars

\* README, "Clearing penalties": an operator sets weeksRemaining to 0 in KV.
clearPenaltyWeeks ==
  /\ PENALTY_BOX # NULL
  /\ PENALTY_BOX' = [PENALTY_BOX EXCEPT !.weeksRemaining = 0]
  /\ op' = "clearWeeks"
  /\ pre' = snapshot
  /\ out' = NULL
  /\ UNCHANGED <<ROTATION_DB, TEAM_MEMBERS, CURRENT_INDEX, hist, run>>

\* README, "Clearing penalties": an operator deletes PENALTY_BOX in KV.
deletePenaltyBox ==
  /\ PENALTY_BOX # NULL
  /\ PENALTY_BOX' = NULL
  /\ op' = "deleteBox"
  /\ pre' = snapshot
  /\ out' = NULL
  /\ UNCHANGED <<ROTATION_DB, TEAM_MEMBERS, CURRENT_INDEX, hist, run>>

NextOperated ==
  \/ scheduled
  \/ fetchSchedule
  \/ fetchReport
  \/ clearPenaltyWeeks
  \/ deletePenaltyBox

\* The worker together with an operator who clears penalties by hand.
SpecOperated == Init /\ [][NextOperated]_vars

\* ------------------------------------------------------------------------
\* The handlers taken one await at a time
\* ------------------------------------------------------------------------

\* Largest roster of the runs with two invocations in flight.
MaxOverlapTeam == 3

\* What a step of a handler never touches.
stepFrame == UNCHANGED <<ROTATION_DB, TEAM_MEMBERS, op, pre, out, hist>>

\* The invocations whose notifications have been dispatched.
notifiedSlots == {t \in Slots : run[t].notified}

\* The order of the awaits of scheduled() from the validation on:
\* delete (308/314), put (328-337), the message loop (359-414),
\* Promise.allSettled (417).
tickAfter(pc) ==
  CASE pc = "validate" -> "write"
    [] pc = "write" -> "notify"
    [] pc = "notify" -> "settle"
    [] OTHER -> "done"

reportAfter_alertsFirst(pc) ==
  CASE pc = "putPenalty" -> "notify"
    [] pc = "notify" -> "putIndex"
    [] pc = "putIndex" -> "settle"
    [] OTHER -> "done"

\* The order of the awaits of POST /report once it records a penalty:
\* put PENALTY_BOX (613), put CURRENT_INDEX (614), the alerts (626-632),
\* their results (633-641).
reportAfter(pc) ==
  CASE pc = "putPenalty" -> "putIndex"
    [] pc = "putIndex" -> "notify"
    [] pc = "notify" -> "settle"
    [] OTHER -> "done"

\* scheduled() up to its first read: the binding check and TEAM_MEMBERS.
tickStart(s) ==
  /\ run[s].pc = "idle"
  /\ run' = [run EXCEPT ![s] =
       IF ~getRotationDb(ROTATION_DB) \/ rosterSize = 0
       THEN [Idle EXCEPT !.kind = "tick", !.pc = "aborted",
                         !.since = notifiedSlots]
       ELSE [Idle EXCEPT !.kind = "tick", !.pc = "getIndex",
                         !.team = TEAM_MEMBERS, !.since = notifiedSlots]]
  /\ UNCHANGED <<CURRENT_INDEX, PENALTY_BOX>>
  /\ stepFrame

\* await rotationDb.get('CURRENT_INDEX')
tickGetIndex(s) ==
  /\ run[s].kind = "tick" /\ run[s].pc = "getIndex"
  /\ run' = [run EXCEPT ![s].rawIndex = CURRENT_INDEX,
                        ![s].pc = "getPenalty"]
  /\ UNCHANGED <<CURRENT_INDEX, PENALTY_BOX>>
  /\ stepFrame

\* await rotationDb.get('PENALTY_BOX', 'json'); the validation that follows
\* awaits only when it deletes.
tickGetPenalty(s) ==
  /\ run[s].kind = "tick" /\ run[s].pc = "getPenalty"
  /\ run' = [run EXCEPT
       ![s].rawBox = PENALTY_BOX,
       ![s].pc = IF validationDeletes(PENALTY_BOX, Len(run[s].team))
                 THEN "validate"
                 ELSE tickAfter("validate")]
  /\ UNCHANGED <<CURRENT_INDEX, PENALTY_BOX>>
  /\ stepFrame

\* await rotationDb.delete('PENALTY_BOX') of step 2
tickValidate(s) ==
  /\ run[s].kind = "tick" /\ run[s].pc = "validate"
  /\ PENALTY_BOX' = NULL
  /\ run' = [run EXCEPT ![s].pc = tickAfter("validate")]
  /\ UNCHANGED CURRENT_INDEX
  /\ stepFrame

\* Step 3: put the decremented record on a penalty week, else put the
\* advanced pointer; both are computed from the values read earlier.
tickWrite(s) ==
  /\ run[s].kind = "tick" /\ run[s].pc = "write"
  /\ LET r == run[s]
     IN IF servesPenalty(validatedPenalty(r.rawBox, Len(r.team)))
        THEN /\ PENALTY_BOX' = scheduledPenaltyBox(r.team, r.rawBox)
             /\ UNCHANGED CURRENT_INDEX
        ELSE /\ CURRENT_INDEX' =
                  scheduledIndexKey(r.team, r.rawIndex, r.rawBox)
             /\ UNCHANGED PENALTY_BOX
  /\ run' = [run EXCEPT
       ![s].pc = tickAfter("write"),
       ![s].after = [index |-> CURRENT_INDEX', box |-> PENALTY_BOX']]
  /\ stepFrame

\* Step 4: the loop calls sendSms for every member without awaiting.
tickNotify(s) ==
  /\ run[s].kind = "tick" /\ run[s].pc = "notify"
  /\ LET r == run[s]
         told == scheduledOut(r.team, r.rawIndex, r.rawBox)
     IN run' = [run EXCEPT
          ![s].sent = told.sendQueue,
          ![s].notified = ~told.threw,
          ![s].pc = IF told.threw THEN "threw" ELSE tickAfter("notify")]
  /\ UNCHANGED <<CURRENT_INDEX, PENALTY_BOX>>
  /\ stepFrame

\* await Promise.allSettled(sendQueue): any subset of the sends comes back
\* { ok: false }; the handler counts and logs them.
tickSettle(s) ==
  /\ run[s].kind = "tick" /\ run[s].pc = "settle"
  /\ \E failed \in SUBSET (1..Len(run[s].sent)) :
       run' = [run EXCEPT ![s].failures = Cardinality(failed),
                          ![s].pc = tickAfter("settle")]
  /\ UNCHANGED <<CURRENT_INDEX, PENALTY_BOX>>
  /\ stepFrame

\* POST /report up to its first read: the binding check and TEAM_MEMBERS.
reportStart(s) ==
  /\ run[s].pc = "idle"
  /\ run' = [run EXCEPT ![s] =
       IF ~getRotationDb(ROTATION_DB) \/ rosterSize = 0
       THEN [Idle EXCEPT !.kind = "report", !.pc = "error",
                         !.since = notifiedSlots]
       ELSE [Idle EXCEPT !.kind = "report", !.pc = "getIndex",
                         !.team = TEAM_MEMBERS, !.since = notifiedSlots]]
  /\ UNCHANGED <<CURRENT_INDEX, PENALTY_BOX>>
  /\ stepFrame

\* await rotationDb.get('CURRENT_INDEX')
reportGetIndex(s) ==
  /\ run[s].kind = "report" /\ run[s].pc = "getIndex"
  /\ run' = [run EXCEPT ![s].rawIndex = CURRENT_INDEX,
                        ![s].pc = "getPenalty"]
  /\ UNCHANGED <<CURRENT_INDEX, PENALTY_BOX>>
  /\ stepFrame

\* await rotationDb.get('PENALTY_BOX', 'json'), then the decision: the
\* request ends here unless a penalty is to be recorded.
reportGetPenalty(s) ==
  /\ run[s].kind = "report" /\ run[s].pc = "getPenalty"
  /\ LET result == reportOut(run[s].team, run[s].rawIndex, PENALTY_BOX)
     IN run' = [run EXCEPT
          ![s].rawBox = PENALTY_BOX,
          ![s].pc = IF result.kind = "recorded"
                    THEN "putPenalty"
                    ELSE result.kind]
  /\ UNCHANGED <<CURRENT_INDEX, PENALTY_BOX>>
  /\ stepFrame

\* await rotationDb.put('PENALTY_BOX', JSON.stringify(penalty))
reportPutPenalty(s) ==
  /\ run[s].kind = "report" /\ run[s].pc = "putPenalty"
  /\ LET r == run[s]
     IN PENALTY_BOX' =
          newPenalty(reportOut(r.team, r.rawIndex, r.rawBox).offenderIndex)
  /\ run' = [run EXCEPT ![s].pc = reportAfter("putPenalty")]
  /\ UNCHANGED CURRENT_INDEX
  /\ stepFrame

\* await rotationDb.put('CURRENT_INDEX', offenderIndex.toString())
reportPutIndex(s) ==
  /\ run[s].kind = "report" /\ run[s].pc = "putIndex"
  /\ LET r == run[s]
     IN CURRENT_INDEX' =
          reportIndexKey(r.rawIndex,
                         reportOut(r.team, r.rawIndex, r.rawBox).offenderIndex)
  /\ UNCHANGED PENALTY_BOX
  /\ run' = [run EXCEPT
       ![s].pc = reportAfter("putIndex"),
       ![s].after = [index |-> CURRENT_INDEX', box |-> PENALTY_BOX']]
  /\ stepFrame

\* recipients.map(sendSms): the alert goes out to every recipient at once.
reportNotify(s) ==
  /\ run[s].kind = "report" /\ run[s].pc = "notify"
  /\ LET r == run[s]
         alerts == reportOut(r.team, r.rawIndex, r.rawBox).alerts
     IN run' = [run EXCEPT
          ![s].sent = alerts,
          ![s].notified = alerts # <<>>,
          ![s].pc = reportAfter("notify")]
  /\ UNCHANGED <<CURRENT_INDEX, PENALTY_BOX>>
  /\ stepFrame

\* await Promise.allSettled(...) of the alerts, then the 200 answer.
reportSettle(s) ==
  /\ run[s].kind = "report" /\ run[s].pc = "settle"
  /\ \E failed \in SUBSET (1..Len(run[s].sent)) :
       run' = [run EXCEPT ![s].failures = Cardinality(failed),
                          ![s].pc = reportAfter("settle")]
  /\ UNCHANGED <<CURRENT_INDEX, PENALTY_BOX>>
  /\ stepFrame

\* GET /schedule up to its first read: the binding check and TEAM_MEMBERS;
\* a missing binding or roster is answered 500 by the catch block.
queryStart(s) ==
  /\ run[s].pc = "idle"
  /\ run' = [run EXCEPT ![s] =
       IF ~getRotationDb(ROTATION_DB) \/ rosterSize = 0
       THEN [Idle EXCEPT !.kind = "query", !.pc = "error",
                         !.since = notifiedSlots,
                         !.answer = [status |-> 500]]
       ELSE [Idle EXCEPT !.kind = "query", !.pc = "getIndex",
                         !.team = TEAM_MEMBERS, !.since = notifiedSlots]]
  /\ UNCHANGED <<CURRENT_INDEX, PENALTY_BOX>>
  /\ stepFrame

\* parseInt((await rotationDb.get('CURRENT_INDEX')) || '0')
queryGetIndex(s) ==
  /\ run[s].kind = "query" /\ run[s].pc = "getIndex"
  /\ run' = [run EXCEPT ![s].rawIndex = CURRENT_INDEX,
                        ![s].pc = "getPenalty"]
  /\ UNCHANGED <<CURRENT_INDEX, PENALTY_BOX>>
  /\ stepFrame

\* await rotationDb.get('PENALTY_BOX', 'json'), then the response is built
\* from the three values read, with no further await.
queryGetPenalty(s) ==
  /\ run[s].kind = "query" /\ run[s].pc = "getPenalty"
  /\ run' = [run EXCEPT
       ![s].rawBox = PENALTY_BOX,
       ![s].answer = scheduleResponse(run[s].team, run[s].rawIndex,
                                      PENALTY_BOX),
       ![s].pc = "done"]
  /\ UNCHANGED <<CURRENT_INDEX, PENALTY_BOX>>
  /\ stepFrame

NextOverlap ==
  \E s \in Slots :
    \/ tickStart(s)
    \/ tickGetIndex(s)
    \/ tickGetPenalty(s)
    \/ tickValidate(s)
    \/ tickWrite(s)
    \/ tickNotify(s)
    \/ tickSettle(s)
    \/ reportStart(s)
    \/ reportGetIndex(s)
    \/ reportGetPenalty(s)
    \/ reportPutPenalty(s)
    \/ reportPutIndex(s)
    \/ reportNotify(s)
    \/ reportSettle(s)
    \/ queryStart(s)
    \/ queryGetIndex(s)
    \/ queryGetPenalty(s)

\* A store the program itself produces (no record, or a record naming the
\* member at the pointer with 0..PENALTY_LENGTH-1 weeks), or one not yet
\* usable (no binding, no roster), with no invocation in flight.
InitOverlap ==
  /\ ROTATION_DB \in BOOLEAN
  /\ \E n \in 0..MaxOverlapTeam :
       /\ TEAM_MEMBERS = MakeTeam(n)
       /\ \E p \in 0..Max(0, n - 1) :
            /\ CURRENT_INDEX = toString(p)
            /\ PENALTY_BOX \in
                 IF n = 0
                 THEN {NULL}
                 ELSE {NULL} \cup
                      {[offenderIndex |-> p, weeksRemaining |-> w] :
                         w \in 0..(PENALTY_LENGTH - 1)}
  /\ op = "init"
  /\ pre = snapshot
  /\ out = NULL
  /\ hist = NoReport
  /\ run = NoRuns

\* Up to two invocations, Ticks, Reports or Queries, each run once and
\* interleaved at their awaits.
SpecOverlap == InitOverlap /\ [][NextOverlap]_vars

\* The stored state a whole Tick leaves when it starts in state st.
afterTick(st) ==
  IF Len(st.team) = 0
  THEN st
  ELSE [index |-> scheduledIndexKey(st.team, st.index, st.box),
        box |-> scheduledPenaltyBox(st.team, st.box),
        team |-> st.team]

\* The stored state a whole Report leaves when it starts in state st.
afterReport(st) ==
  LET result == reportOut(st.team, st.index, st.box)
  IN IF result.kind = "recorded"
     THEN [index |-> reportIndexKey(st.index, result.offenderIndex),
           box |-> newPenalty(result.offenderIndex),
           team |-> st.team]
     ELSE st

\* ------------------------------------------------------------------------
\* Properties
\* ------------------------------------------------------------------------

\* The pointer the last invocation read.
prePointer == parseIndex(pre.index)

\* The last invocation read a penalty record whose offender is in the roster.
preValidPenalty == pre.box # NULL /\ offenderInRange(pre.box, rosterSize)

nameAt(i) == At(TEAM_MEMBERS, i).name

\* C1: a Tick that reads no penalty record stores pointer (p+1) mod n, an
\* advance of exactly 1, and announces roster[(p+1) mod n] as this week's
\* on-duty member.
C1_NormalTickAdvances ==
  (op = "tick" /\ pre.box = NULL) =>
    /\ CURRENT_INDEX = toString((prePointer + 1) % rosterSize)
    /\ pointer = (prePointer + 1) % rosterSize
    /\ out.thisWeek = nameAt((prePointer + 1) % rosterSize)

C1_Witness ==
  /\ op = "tick" /\ pre.box = NULL
  /\ rosterSize >= 3 /\ prePointer = rosterSize - 1 /\ pointer = 0

\* C2: a Tick that reads a valid record with weeksRemaining = w > 0 stores
\* the same record with w - 1; the record is deleted exactly by the Tick that
\* reads weeksRemaining = 0; and the Tick that follows a deleting Tick is a
\* Normal tick (no serving offender, pointer advanced by 1).
C2_PenaltyCountdown ==
  /\ [](op = "tick" /\ preValidPenalty =>
          /\ pre.box.weeksRemaining > 0 =>
               PENALTY_BOX = [offenderIndex |-> pre.box.offenderIndex,
                              weeksRemaining |-> pre.box.weeksRemaining - 1]
          /\ (PENALTY_BOX = NULL) <=> (pre.box.weeksRemaining = 0))
  /\ [][(op = "tick" /\ preValidPenalty /\ PENALTY_BOX = NULL /\ op' = "tick")
          => /\ out'.activePenalty = NULL
             /\ pointer' = (pointer + 1) % rosterSize
             /\ PENALTY_BOX' = NULL]_vars

C2_Witness ==
  /\ op = "tick" /\ pre.box = NULL /\ rosterSize >= 2
  /\ hist.offender # -1 /\ hist.ticks = PENALTY_LENGTH + 1

\* C3 as claimed: a Tick that reads a valid penalty record (offender in
\* range, weeksRemaining >= 0) leaves the stored pointer unchanged.
C3_Original ==
  (op = "tick" /\ preValidPenalty /\ pre.box.weeksRemaining >= 0) =>
    pointer = prePointer

\* C3 as amended: a Tick that reads a valid penalty record with
\* weeksRemaining > 0 leaves the stored pointer unchanged.
C3_PenaltyTickKeepsPointer ==
  (op = "tick" /\ preValidPenalty /\ pre.box.weeksRemaining > 0) =>
    /\ CURRENT_INDEX = pre.index
    /\ pointer = prePointer

C3_Witness ==
  /\ op = "tick" /\ preValidPenalty /\ pre.box.weeksRemaining > 0
  /\ rosterSize >= 2 /\ PENALTY_BOX # NULL

C5_Original ==
  (op = "report" /\ preValidPenalty /\ pre.box.weeksRemaining > 0) =>
    /\ PENALTY_BOX = pre.box
    /\ CURRENT_INDEX = pre.index
    /\ out.kind = "ignored"

\* C5 as amended: a Report that reads a valid penalty record with
\* weeksRemaining >= PENALTY_LENGTH - 1 changes neither the record nor the
\* pointer, sends nothing and answers with the informational message; with
\* 0 < weeksRemaining < PENALTY_LENGTH - 1 the Report is accepted and renews
\* the penalty of the same offender (weeksRemaining = PENALTY_LENGTH - 1,
\* pointer = offender).
C5_ReportNoOpWhenFresh ==
  (op = "report" /\ preValidPenalty /\ pre.box.weeksRemaining > 0) =>
    IF pre.box.weeksRemaining >= PENALTY_LENGTH - 1
    THEN /\ PENALTY_BOX = pre.box
         /\ CURRENT_INDEX = pre.index
         /\ out.status = 200 /\ out.kind = "ignored"
         /\ out.alerts = <<>>
    ELSE /\ PENALTY_BOX = [offenderIndex |-> pre.box.offenderIndex,
                           weeksRemaining |-> PENALTY_LENGTH - 1]
         /\ pointer = pre.box.offenderIndex
         /\ out.status = 200 /\ out.kind = "recorded"

C5_Witness ==
  /\ op = "report" /\ preValidPenalty
  /\ pre.box.weeksRemaining = PENALTY_LENGTH - 1
  /\ out.kind = "ignored" /\ rosterSize >= 2

\* C6: after a Report accepted with no penalty stored, and until another
\* Report, the offender is on duty in the week of the report (as the Query
\* shows it) and in the weeks started by the next two Ticks, and the third
\* Tick puts a different member on duty when n >= 2.
C6_PenaltyLastsThreeWeeks ==
  hist.clean =>
    /\ (op = "query" /\ hist.ticks < PENALTY_LENGTH) =>
         out.onDuty = nameAt(hist.offender)
    /\ (op = "tick" /\ hist.ticks \in 1..(PENALTY_LENGTH - 1)) =>
         out.thisWeek = nameAt(hist.offender)
    /\ (op = "tick" /\ hist.ticks = PENALTY_LENGTH /\ rosterSize >= 2) =>
         out.thisWeek # nameAt(hist.offender)
    /\ (op = "query" /\ hist.ticks = PENALTY_LENGTH /\ rosterSize >= 2) =>
         out.onDuty # nameAt(hist.offender)

C6_Witness ==
  /\ hist.clean /\ op = "tick" /\ hist.ticks = PENALTY_LENGTH
  /\ rosterSize >= 2 /\ out.thisWeek # nameAt(hist.offender)

\* C7: after a Report naming offender o, exactly PENALTY_LENGTH Ticks and no
\* further Report, no penalty record is stored, the pointer is (o+1) mod n
\* and the on-duty member is roster[(o+1) mod n].
C7_RotationResumesAtSuccessor ==
  (hist.offender # -1 /\ hist.ticks = PENALTY_LENGTH) =>
    LET successor == (hist.offender + 1) % rosterSize
    IN /\ PENALTY_BOX = NULL
       /\ pointer = successor
       /\ op = "tick" => out.thisWeek = nameAt(successor)
       /\ op = "query" => out.onDuty = nameAt(successor)

C7_Witness ==
  /\ hist.offender # -1 /\ ~hist.clean /\ hist.ticks = PENALTY_LENGTH
  /\ op = "tick" /\ rosterSize >= 3 /\ hist.offender = rosterSize - 1

\* C8: a Tick that reads a valid record with weeksRemaining = 0 deletes the
\* record, advances the pointer from p to (p+1) mod n in the same Tick and
\* announces roster[(p+1) mod n] as on duty.
C8_FinalWeekTickDeletesAndAdvances ==
  (op = "tick" /\ preValidPenalty /\ pre.box.weeksRemaining = 0) =>
    /\ PENALTY_BOX = NULL
    /\ pointer = (prePointer + 1) % rosterSize
    /\ CURRENT_INDEX = toString((prePointer + 1) % rosterSize)
    /\ out.thisWeek = nameAt((prePointer + 1) % rosterSize)
    /\ out.activePenalty = NULL

C8_Witness ==
  /\ op = "tick" /\ preValidPenalty /\ pre.box.weeksRemaining = 0
  /\ PENALTY_BOX = NULL /\ rosterSize >= 2 /\ pointer # prePointer

\* C9: the member an accepted Report penalizes is the member the Query names
\* as lastWeek in the state the Report read (the name in the dashboard's
\* confirmation prompt), also in the final penalty week.
C9_ReportPenalizesLastWeek ==
  (op = "report" /\ out.kind = "recorded") =>
    nameAt(out.offenderIndex) =
      scheduleResponse(TEAM_MEMBERS, pre.index, pre.box).lastWeek

\* C10: the store holds at most one penalty record, and a Report that reads
\* a record with weeksRemaining > 0 leaves a record naming the same offender,
\* its weeksRemaining unchanged or reset to PENALTY_LENGTH - 1.
C10_ReportKeepsOffender ==
  /\ PENALTY_BOX = NULL
       \/ DOMAIN PENALTY_BOX = {"offenderIndex", "weeksRemaining"}
  /\ (op = "report" /\ pre.box # NULL /\ pre.box.weeksRemaining > 0) =>
       /\ PENALTY_BOX # NULL
       /\ PENALTY_BOX.offenderIndex = pre.box.offenderIndex
       /\ PENALTY_BOX.weeksRemaining
            \in {pre.box.weeksRemaining, PENALTY_LENGTH - 1}

C10_Witness ==
  /\ op = "report" /\ pre.box # NULL /\ pre.box.weeksRemaining = 1
  /\ out.kind = "recorded" /\ rosterSize >= 2
  /\ PENALTY_BOX.weeksRemaining = PENALTY_LENGTH - 1

\* The last invocation got past the binding and roster checks.
preUsable == ROTATION_DB /\ rosterSize > 0

\* The last invocation read a record whose offender is outside the roster.
preStalePenalty == pre.box # NULL /\ ~offenderInRange(pre.box, rosterSize)

\* C11: with a non-empty roster the stored pointer stays within 0..n-1 under
\* every sequence of Ticks, Reports and Queries, also when a Report reads a
\* stale penalty record.
C11_PointerInRange ==
  rosterSize > 0 => (pointer >= 0 /\ pointer < rosterSize)

\* C12: a Query leaves roster, pointer and penalty record as it found them,
\* whether it answers 200 or 500 and whatever the stored record is.
C12_QueryWritesNothing ==
  op = "query" =>
    /\ TEAM_MEMBERS = pre.team
    /\ CURRENT_INDEX = pre.index
    /\ PENALTY_BOX = pre.box

C12_Witness ==
  /\ op = "query" /\ out.status = 500 /\ rosterSize > 0
  /\ preStalePenalty /\ PENALTY_BOX = pre.box

\* C13 as claimed: the Query reports onDuty = roster[offenderIndex] whenever
\* a valid record is stored (weeksRemaining >= 0, whatever the pointer) and
\* onDuty = roster[pointer] otherwise.
C13_Original ==
  (op = "query" /\ out.status = 200) =>
    IF preValidPenalty /\ pre.box.weeksRemaining >= 0
    THEN out.onDuty = nameAt(pre.box.offenderIndex)
    ELSE out.onDuty = nameAt(prePointer)

\* C13 as amended: the Query reports onDuty = roster[offenderIndex] whenever
\* a valid record is stored with weeksRemaining > 0 (whatever the pointer)
\* or with weeksRemaining = 0 and offenderIndex = pointer, and
\* onDuty = roster[pointer] in every other case.
C13_QueryOnDuty ==
  (op = "query" /\ out.status = 200) =>
    IF preValidPenalty
       /\ (pre.box.weeksRemaining > 0 \/ pre.box.offenderIndex = prePointer)
    THEN out.onDuty = nameAt(pre.box.offenderIndex)
    ELSE out.onDuty = nameAt(prePointer)

C13_Witness ==
  /\ op = "query" /\ out.status = 200 /\ preValidPenalty
  /\ pre.box.weeksRemaining > 0 /\ pre.box.offenderIndex # prePointer
  /\ out.onDuty = nameAt(pre.box.offenderIndex)

\* C14: from the week of the report through the final penalty week the
\* Query reports lastWeek = the offender; with no penalty record it reports
\* lastWeek = roster[(pointer-1+n) mod n].
C14_QueryLastWeek ==
  (op = "query" /\ out.status = 200) =>
    IF pre.box # NULL
    THEN out.lastWeek = nameAt(pre.box.offenderIndex)
    ELSE out.lastWeek = nameAt((prePointer - 1 + rosterSize) % rosterSize)

C14_Witness ==
  /\ op = "query" /\ out.status = 200 /\ rosterSize >= 2
  /\ pre.box # NULL /\ pre.box.weeksRemaining = 0
  /\ out.lastWeek = nameAt(pre.box.offenderIndex)

\* C15: a penalty the Query reports as Active carries weeksRemaining =
\* stored weeksRemaining + 1 (the stored value when Pending); in the final
\* week (stored 0, pointer = offender) it is still Active with
\* weeksRemaining = 1, so the dashboard shows the banner.
C15_DisplayWeeksRemaining ==
  (op = "query" /\ out.status = 200) =>
    /\ out.penaltyInfo # NULL =>
         /\ out.penaltyInfo.isActive =>
              out.penaltyInfo.weeksRemaining = pre.box.weeksRemaining + 1
         /\ out.penaltyInfo.startsNextRotation =>
              out.penaltyInfo.weeksRemaining = pre.box.weeksRemaining
    /\ (preValidPenalty /\ pre.box.weeksRemaining = 0
          /\ pre.box.offenderIndex = prePointer) =>
         /\ out.penaltyInfo # NULL
         /\ out.penaltyInfo.isActive
         /\ out.penaltyInfo.weeksRemaining = 1
         /\ bannerVisible(out)

C15_Witness ==
  /\ op = "query" /\ out.status = 200 /\ preValidPenalty
  /\ pre.box.weeksRemaining = 0 /\ pre.box.offenderIndex = prePointer
  /\ bannerVisible(out)

\* C16: with a stored record whose offenderIndex is outside 0..n-1 and the
\* pointer in range, the Query answers 200 with onDuty = roster[pointer],
\* lastWeek = roster[(pointer-1+n) mod n] and an empty penalty status.
C16_QueryIgnoresStalePenalty ==
  (op = "query" /\ preUsable /\ preStalePenalty /\ prePointer < rosterSize) =>
    /\ out.status = 200
    /\ out.onDuty = nameAt(prePointer)
    /\ out.lastWeek = nameAt((prePointer - 1 + rosterSize) % rosterSize)
    /\ out.penaltyInfo = NULL

C16_Witness ==
  /\ op = "query" /\ preUsable /\ preStalePenalty /\ prePointer < rosterSize
  /\ pre.box.weeksRemaining > 0 /\ rosterSize >= 2 /\ out.status = 200

\* C17: a Tick that reads a record whose offenderIndex is outside 0..n-1
\* deletes it, announces no serving offender and runs as a Normal tick:
\* the pointer advances by 1 mod n and roster[new pointer] is on duty.
C17_TickDiscardsStalePenalty ==
  (op = "tick" /\ preUsable /\ preStalePenalty) =>
    /\ PENALTY_BOX = NULL
    /\ out.activePenalty = NULL
    /\ pointer = (prePointer + 1) % rosterSize
    /\ out.thisWeek = nameAt(pointer)
    /\ \A i \in 1..Len(out.sendQueue) :
         out.sendQueue[i].status.kind # "penaltyWeek"

C17_Witness ==
  /\ op = "tick" /\ preUsable /\ preStalePenalty
  /\ pre.box.weeksRemaining > 0 /\ rosterSize >= 2
  /\ PENALTY_BOX = NULL /\ pointer # prePointer

\* C18 as claimed: a Tick that reads a record naming an out-of-range
\* offender aborts and dispatches no notification.
C18_Original ==
  (op = "tick" /\ preUsable /\ preStalePenalty) =>
    out.sendQueue = <<>>

\* C18 as amended: a Tick that reads a record naming an out-of-range
\* offender does not abort: it deletes the record and dispatches exactly one
\* notification to each roster member.
C18_StaleTickStillNotifies ==
  (op = "tick" /\ preUsable /\ preStalePenalty) =>
    /\ ~out.aborted /\ ~out.threw
    /\ PENALTY_BOX = NULL
    /\ Len(out.sendQueue) = rosterSize
    /\ \A i \in 1..rosterSize :
         out.sendQueue[i].to = TEAM_MEMBERS[i].phone

C18_Witness ==
  /\ op = "tick" /\ preUsable /\ preStalePenalty
  /\ rosterSize >= 3 /\ Len(out.sendQueue) = rosterSize

\* C19: without the binding, or with a missing or empty roster, a Tick
\* writes neither pointer nor penalty record and dispatches no notification.
C19_TickAbortsWithoutStore ==
  (op = "tick" /\ (~ROTATION_DB \/ rosterSize = 0)) =>
    /\ CURRENT_INDEX = pre.index
    /\ PENALTY_BOX = pre.box
    /\ out.aborted
    /\ out.sendQueue = <<>>

C19_Witness ==
  /\ op = "tick" /\ ~ROTATION_DB /\ rosterSize >= 2
  /\ pre.box # NULL /\ out.aborted

\* C20: without the binding, or with a missing or empty roster, a Report
\* answers 500 with an error body, writes neither pointer nor penalty record
\* and sends no notification.
C20_ReportFailsClosed ==
  (op = "report" /\ (~ROTATION_DB \/ rosterSize = 0)) =>
    /\ out.status = 500
    /\ out.kind \in {"configError", "error"}
    /\ CURRENT_INDEX = pre.index
    /\ PENALTY_BOX = pre.box
    /\ out.alerts = <<>>

C20_Witness ==
  /\ op = "report" /\ ROTATION_DB /\ rosterSize = 0
  /\ out.status = 500 /\ out.kind = "error"

\* The last Tick got past the binding and roster checks and built messages.
tickNotified == op = "tick" /\ ~out.aborted /\ ~out.threw

\* C24: in a Tick's messages every member i other than a serving offender
\* is told W weeks until their turn, W = ((i - pointer) mod n) + r + 1 while
\* a penalty is in effect (r the weeksRemaining this Tick stored) and
\* W = (i - pointer) mod n otherwise; W = 0 happens only without a penalty
\* and only for the on-duty member, who is told they are on duty this week.
C24_WeeksUntilTurn ==
  tickNotified =>
    \A i \in 0..(rosterSize - 1) :
      LET status == out.sendQueue[i + 1].status
          served == out.activePenalty # NULL
          W == IF served
               THEN ((i - pointer) % rosterSize)
                      + PENALTY_BOX.weeksRemaining + 1
               ELSE (i - pointer) % rosterSize
      IN IF served /\ i = out.activePenalty.offenderIndex
         THEN status.kind = "penaltyWeek"
         ELSE IF W = 0
              THEN /\ ~served
                   /\ i = pointer
                   /\ status.kind = "onDutyThisWeek"
                   /\ out.thisWeek = nameAt(i)
              ELSE /\ status.kind = "nextTurn"
                   /\ status.weeks = W
                   /\ status.weekString = weekString(W)

C24_Witness ==
  /\ tickNotified /\ rosterSize = 3
  /\ out.activePenalty # NULL /\ PENALTY_BOX.weeksRemaining = 1
  /\ out.activePenalty.offenderIndex = pointer
  /\ \E i \in 1..rosterSize :
       /\ out.sendQueue[i].status.kind = "nextTurn"
       /\ out.sendQueue[i].status.weeks = 4

\* The last Query answered 200; deriveUpcoming runs on its response.
queryAnswered == op = "query" /\ out.status = 200

\* The number of leading offender entries C25 and C26 speak of: the stored
\* future weeks, at most K.
offenderRows ==
  IF pre.box = NULL
  THEN 0
  ELSE IF Max(0, pre.box.weeksRemaining) > MAX_UPCOMING_ROWS
       THEN MAX_UPCOMING_ROWS
       ELSE Max(0, pre.box.weeksRemaining)

\* C25: the upcoming list computed from a Query response has exactly K = 3
\* entries: the offender once per stored future penalty week (at most K),
\* then roster[(pointer+1) mod n], roster[(pointer+2) mod n], ...; without
\* a penalty and K >= n it wraps and repeats members.
C25_UpcomingList ==
  queryAnswered =>
    LET upcoming == deriveUpcoming(out)
    IN /\ Len(upcoming) = MAX_UPCOMING_ROWS
       /\ \A j \in 1..MAX_UPCOMING_ROWS :
            IF j <= offenderRows
            THEN upcoming[j] = nameAt(pre.box.offenderIndex)
            ELSE upcoming[j] =
                   nameAt((prePointer + (j - offenderRows)) % rosterSize)

\* C26 as claimed: with K = 3 and 2 future penalty weeks stored the
\* upcoming list is [offender, offender, roster[pointer]].
C26_Original ==
  (queryAnswered /\ preValidPenalty /\ pre.box.weeksRemaining = 2) =>
    deriveUpcoming(out) =
      <<nameAt(pre.box.offenderIndex), nameAt(pre.box.offenderIndex),
        nameAt(prePointer)>>

\* C26 as amended: with K = 3 and 2 future penalty weeks stored for a
\* member of the roster the upcoming list is
\* [offender, offender, roster[(pointer+1) mod n]].
C26_UpcomingDuringPenalty ==
  (queryAnswered /\ preValidPenalty /\ pre.box.weeksRemaining = 2) =>
    deriveUpcoming(out) =
      <<nameAt(pre.box.offenderIndex), nameAt(pre.box.offenderIndex),
        nameAt((prePointer + 1) % rosterSize)>>

C26_Witness ==
  /\ queryAnswered /\ preValidPenalty /\ pre.box.weeksRemaining = 2
  /\ rosterSize >= 2 /\ pre.box.offenderIndex = prePointer
  /\ deriveUpcoming(out)[3] # nameAt(prePointer)

\* C23: an accepted Report sends the penalty announcement exactly once to
\* every roster member that has a phone number; a Report answered as a
\* no-op or with 500 sends none.
C23_ReportBroadcast ==
  op = "report" =>
    IF out.kind = "recorded"
    THEN /\ \A i \in 1..rosterSize :
              TEAM_MEMBERS[i].phone # <<>> =>
                Cardinality({k \in 1..Len(out.alerts) :
                               out.alerts[k] = TEAM_MEMBERS[i].phone}) = 1
         /\ \A k \in 1..Len(out.alerts) :
              \E i \in 1..rosterSize : out.alerts[k] = TEAM_MEMBERS[i].phone
    ELSE out.alerts = <<>>

\* C28: two Reports in a row leave the penalty record and the pointer as
\* the first Report left them, and the second Report sends no broadcast.
C28_ReportIdempotent ==
  [][(op = "report" /\ op' = "report") =>
       /\ CURRENT_INDEX' = CURRENT_INDEX
       /\ PENALTY_BOX' = PENALTY_BOX
       /\ out'.alerts = <<>>]_vars

C28_Witness ==
  /\ op = "report" /\ out.kind = "ignored" /\ rosterSize >= 2
  /\ pre.box = newPenalty(prePointer)
  /\ PENALTY_BOX = pre.box /\ CURRENT_INDEX = pre.index

\* The operator has just cleared a penalty that was being served.
penaltyCleared ==
  /\ op \in {"clearWeeks", "deleteBox"}
  /\ pre.box.offenderIndex = prePointer

hasRead(s) ==
  run[s].kind # "idle"
    /\ run[s].pc \notin {"getIndex", "getPenalty", "aborted", "error"}

C22_TickDelivery ==
  \A s \in Slots :
    (run[s].kind = "tick" /\ run[s].pc = "done") =>
      /\ Len(run[s].sent) = rosterSize
      /\ \A i \in 1..rosterSize :
           Cardinality({k \in 1..Len(run[s].sent) :
                          run[s].sent[k].to = TEAM_MEMBERS[i].phone}) = 1
      /\ run[s].failures \in 0..rosterSize
      /\ (\A t \in Slots \ {s} : run[t].kind = "idle") =>
           /\ CURRENT_INDEX = run[s].after.index
           /\ PENALTY_BOX = run[s].after.box
           /\ CURRENT_INDEX =
                scheduledIndexKey(pre.team, pre.index, pre.box)
           /\ PENALTY_BOX = scheduledPenaltyBox(pre.team, pre.box)

C22_Witness ==
  \E s \in Slots :
    /\ run[s].kind = "tick" /\ run[s].pc = "done"
    /\ \A t \in Slots \ {s} : run[t].kind = "idle"
    /\ rosterSize = 3 /\ run[s].failures = 2
    /\ pre.box = NULL /\ CURRENT_INDEX # pre.index

\* Both slots ran a Tick past validation and both have returned.
twoTicksDone ==
  \A s \in Slots : run[s].kind = "tick" /\ run[s].pc = "done"

\* One slot ran a Tick and the other a Report, and both have returned.
tickAndReportDone ==
  \E s \in Slots : \E t \in Slots \ {s} :
    /\ run[s].kind = "tick" /\ run[s].pc = "done"
    /\ run[t].kind = "report" /\ run[t].pc \in {"done", "ignored"}

\* C29: however two Ticks interleave, once both have returned the pointer
\* and the penalty record are those of one Tick run after the other.
C29_TicksSerializable ==
  twoTicksDone => snapshot = afterTick(afterTick(pre))

\* C30: however a Tick and a Report interleave, once both have returned the
\* stored state is that of one of the two sequential orders, and a stored
\* record with weeksRemaining > 0 names the member at the pointer.
C30_TickReportSerializable ==
  tickAndReportDone =>
    /\ snapshot \in {afterReport(afterTick(pre)), afterTick(afterReport(pre))}
    /\ (PENALTY_BOX # NULL /\ PENALTY_BOX.weeksRemaining > 0) =>
         PENALTY_BOX.offenderIndex = pointer

\* C32: whenever non-overlapping Ticks and Reports, started without a
\* penalty record, leave a record in the store, its offenderIndex is the
\* stored pointer.
C32_OffenderAtPointer ==
  PENALTY_BOX # NULL => PENALTY_BOX.offenderIndex = pointer

C32_Witness ==
  /\ op = "tick" /\ rosterSize >= 3
  /\ PENALTY_BOX # NULL /\ PENALTY_BOX.weeksRemaining = 1
  /\ PENALTY_BOX.offenderIndex = pointer /\ pointer = rosterSize - 1

C37_TickAgreesWithQuery ==
  tickNotified =>
    LET data == scheduleResponse(TEAM_MEMBERS, CURRENT_INDEX, PENALTY_BOX)
    IN data.status = 200 /\ data.onDuty = out.thisWeek

\* C38: a Query never reports a penalty as Pending, and a Query answered
\* with no Tick since an accepted Report reports the penalty as Active.
C38_NeverPending ==
  queryAnswered =>
    /\ out.penaltyInfo # NULL =>
         (out.penaltyInfo.isActive /\ ~out.penaltyInfo.startsNextRotation)
    /\ (hist.offender # -1 /\ hist.ticks = 0) =>
         (out.penaltyInfo # NULL /\ out.penaltyInfo.isActive)

C38_Witness ==
  /\ queryAnswered /\ hist.offender # -1 /\ hist.ticks = 0
  /\ rosterSize >= 2 /\ pre.box = newPenalty(prePointer)
  /\ out.penaltyInfo.isActive /\ out.onDuty = nameAt(hist.offender)

\* C39: for a non-empty roster and a pointer in range the upcoming list
\* has exactly K = 3 entries, and with a stored record whose offenderIndex
\* is out of range it is roster[(pointer+1) mod n],
\* roster[(pointer+2) mod n], roster[(pointer+3) mod n].
C39_UpcomingIgnoresStalePenalty ==
  queryAnswered =>
    /\ Len(deriveUpcoming(out)) = MAX_UPCOMING_ROWS
    /\ preStalePenalty =>
         deriveUpcoming(out) =
           [j \in 1..MAX_UPCOMING_ROWS |->
              nameAt((prePointer + j) % rosterSize)]

\* The member the k-th further Tick (k >= 1) announces as 'This Week' when
\* Ticks alone run from the stored state st.
RECURSIVE thisWeekAfter(_, _)
thisWeekAfter(st, k) ==
  IF k = 1
  THEN scheduledOut(st.team, st.index, st.box).thisWeek
  ELSE thisWeekAfter(afterTick(st), k - 1)

\* C34: the 'Next Week' member a Tick announces is the 'This Week' member
\* of the Tick that follows it with no Report in between.
C34_NextWeekIsNextThisWeek ==
  [][(tickNotified /\ op' = "tick" /\ ~out'.aborted) =>
       out'.thisWeek = out.nextWeek]_vars

\* C35: the W weeks a Tick tells a member until their next turn is the
\* number of further Ticks after which that member is first on duty.
C35_WeeksMatchTicks ==
  tickNotified =>
    \A i \in 1..rosterSize :
      LET status == out.sendQueue[i].status
      IN status.kind = "nextTurn" =>
           /\ thisWeekAfter(snapshot, status.weeks) = TEAM_MEMBERS[i].name
           /\ \A k \in 1..(status.weeks - 1) :
                thisWeekAfter(snapshot, k) # TEAM_MEMBERS[i].name

\* C36: entry j (0-based) of the upcoming list computed from a Query
\* response names the member on duty after j+1 further Ticks.
C36_UpcomingMatchesTicks ==
  queryAnswered =>
    LET upcoming == deriveUpcoming(out)
    IN /\ Len(upcoming) = MAX_UPCOMING_ROWS
       /\ \A j \in 1..MAX_UPCOMING_ROWS :
            upcoming[j] = thisWeekAfter(snapshot, j)

C36_Witness ==
  /\ queryAnswered /\ rosterSize >= 3
  /\ pre.box # NULL /\ pre.box.weeksRemaining = 1
  /\ deriveUpcoming(out) =
       <<nameAt(prePointer), nameAt((prePointer + 1) % rosterSize),
         nameAt((prePointer + 2) % rosterSize)>>

\* C40: when Ticks keep firing and Reports stop, every roster member is
\* announced on duty again and again and the penalty record is eventually
\* gone for good; a Tick keeps the pointer or moves it to the next member
\* and a Report keeps it or moves it back by one, so no member is skipped.
C40_EveryoneServes ==
  /\ <>[](op # "report") =>
       /\ \A i \in 1..MaxTeam :
            []<>(i > rosterSize \/ (op = "tick" /\ out.thisWeek = Names[i]))
       /\ <>[](PENALTY_BOX = NULL)
  /\ [][/\ op' = "tick" =>
            pointer' \in {pointer, (pointer + 1) % rosterSize}
        /\ op' = "report" =>
            pointer' \in {pointer, (pointer - 1 + rosterSize) % rosterSize}]_vars

\* The response of a Query that found the stored state st.
queryOf(st) == scheduleResponse(st.team, st.index, st.box)

\* C31: the response of a Query that ran alongside a Tick or a Report is the
\* response to one stored state, the one before that invocation or the one
\* after it: onDuty, lastWeek, currentIndex and penaltyBox are never a mix.
C31_QueryConsistent ==
  \A q \in Slots : \A w \in Slots \ {q} :
    (run[q].kind = "query" /\ run[q].pc = "done") =>
      /\ run[w].kind = "tick" =>
           run[q].answer \in {queryOf(pre), queryOf(afterTick(pre))}
      /\ run[w].kind = "report" =>
           run[q].answer \in {queryOf(pre), queryOf(afterReport(pre))}

C40_Witness ==
  /\ op = "tick" /\ rosterSize = 3 /\ hist.offender # -1
  /\ hist.ticks = PENALTY_LENGTH /\ PENALTY_BOX = NULL
  /\ out.thisWeek = nameAt((hist.offender + 1) % rosterSize)

====
